---- MODULE Spec2Model ----
(***************************************************************************)
(* Three glue programs around Autodesk Fusion:                             *)
(*   fusion_mcp.py        the cloud orchestrator (generate_cube)           *)
(*   LiveCube/LiveCube.py the HTTP server embedded in the CAD host         *)
(*   fusion_server.py     the stub intermediary HTTP server                *)
(* Each program has its own specification (SpecMcp, SpecLive, SpecStub);   *)
(* the variables of the other two programs stay at their initial values.   *)
(***************************************************************************)
EXTENDS Integers, Sequences, FiniteSets, TLC

VARIABLES
    \* ---- fusion_mcp.py: one invocation of generate_cube ----
    pc,         \* position of the coroutine
    edge_arg,   \* the edge_mm argument
    token,      \* value returned by get_oauth_token
    work_id,    \* value returned by submit_cube_workitem
    result,     \* value returned by wait_for_workitem
    ret,        \* value returned by generate_cube
    raised,     \* exception that left generate_cube, None if none
    failedAt,   \* step of the chain that raised, None if none
    excText,    \* text of the exception that step raised
    calls,      \* network calls performed, per kind
    elapsed,    \* seconds slept since the last poll response
    wi,         \* the vendor's workitem (environment)
    \* ---- LiveCube/LiveCube.py: the add-in and its HTTP server ----
    addin,      \* "stopped" or "running": run(context) / stop(context)
    runs,       \* calls of run(context) so far
    starting,   \* server threads started that have not reached HTTPServer(...)
    servers,    \* HTTPServer instances listening on DEFAULT_PORT
    bindErrors, \* server threads whose HTTPServer(...) raised
    nconn,      \* connections that arrived on the port so far
    conn,       \* per connection: the request and the state of its do_GET
    \* ---- fusion_server.py: the stub server, one request at a time ----
    stub        \* the request being handled and the state of its do_GET

mcpVars == <<pc, edge_arg, token, work_id, result, ret, raised, failedAt, excText, calls, elapsed, wi>>

liveVars == <<addin, runs, starting, servers, bindErrors, nconn, conn>>

stubVars == <<stub>>

vars == <<mcpVars, liveVars, stubVars>>

notMcp == <<liveVars, stubVars>>
notLive == <<mcpVars, stubVars>>
notStub == <<mcpVars, liveVars>>

\* Python's None, and str(None)
None == "<None>"
PyStr(v) == IF v = None THEN "None" ELSE v

(***************************************************************************)
(*                          fusion_mcp.py                                  *)
(***************************************************************************)
POLL_INTERVAL == 4

\* Polls counted up to this number; further polls leave the count there.
MaxPolls == 3

EdgeArgs == {20, 30}

\* Exceptions the awaited calls and the dictionary accesses raise; all are
\* subclasses of Exception.
HttpErrors == {"HTTPStatusError", "ConnectError"}
Exceptions == HttpErrors \cup {"KeyError", "JSONDecodeError"}

NonTerminal == {"pending", "inprogress"}
Terminal == {"success", "failed"}

NoWorkitem == [status |-> None, edge_mm |-> 0, reportUrl |-> None, url |-> None]
NoResult == NoWorkitem

\* a narrower except clause: except httpx.HTTPError
CatchesHttpErrorsOnly(e) == e \in HttpErrors

\* except Exception as e (line 108)
Catches(e) == e \in Exceptions

\* lines 108-110: the handler of generate_cube; an exception the except
\* clause does not match leaves the coroutine. The returned texts are kept
\* without their leading emoji.
Except(step, e) ==
    /\ failedAt' = step
    /\ excText' = e
    /\ pc' = "done"
    /\ IF Catches(e)
          THEN ret' = <<"Error creating cube: ", e>> /\ raised' = None
          ELSE ret' = <<>> /\ raised' = e

Count(kind) == [calls EXCEPT ![kind] = IF @ < MaxPolls THEN @ + 1 ELSE @]

\* the tool call: generate_cube(edge_mm) is entered
Invoke ==
    /\ pc = "idle"
    /\ \E e \in EdgeArgs : edge_arg' = e
    /\ pc' = "token"
    /\ UNCHANGED <<token, work_id, result, ret, raised, failedAt, excText, calls, elapsed, wi>>
    /\ UNCHANGED notMcp

\* line 99, get_oauth_token (36-49)
GetToken ==
    /\ pc = "token"
    /\ calls' = Count("token")
    /\ \/ /\ token' = "tok"
          /\ pc' = "submit"
          /\ UNCHANGED <<ret, raised, failedAt, excText>>
       \/ /\ \E e \in Exceptions : Except("token", e)
          /\ UNCHANGED token
    /\ UNCHANGED <<edge_arg, work_id, result, elapsed, wi>>
    /\ UNCHANGED notMcp

\* lines 58-65: the workitem the payload asks for
NewWorkitem(edge_mm) == [NoWorkitem EXCEPT !.status = "pending", !.edge_mm = edge_mm]

\* line 100, submit_cube_workitem (51-73); a submission that raises may or
\* may not have created the workitem at the vendor
Submit ==
    /\ pc = "submit"
    /\ calls' = Count("submit")
    /\ \/ /\ work_id' = "wid"
          /\ wi' = NewWorkitem(edge_arg)
          /\ pc' = "poll"
          /\ UNCHANGED <<ret, raised, failedAt, excText>>
       \/ /\ \E e \in Exceptions : Except("submit", e)
          /\ \/ wi' = wi
             \/ wi' = NewWorkitem(edge_arg)
          /\ UNCHANGED work_id
    /\ UNCHANGED <<edge_arg, token, result, elapsed>>
    /\ UNCHANGED notMcp

\* a test that takes every status but "pending" for final
IsNotPending(state) == state # "pending"

\* line 87
IsTerminal(state) == state \in {"success", "failed"}

\* lines 83-88, one iteration of the loop of wait_for_workitem up to the
\* test of the status; the response carries the workitem as the vendor has it
Poll ==
    /\ pc = "poll"
    /\ calls' = Count("poll")
    /\ elapsed' = 0
    /\ \/ /\ LET data == wi
                 state == data.status IN
               IF IsTerminal(state)
                  THEN result' = data /\ pc' = "read"
                  ELSE result' = result /\ pc' = "sleep"
          /\ UNCHANGED <<ret, raised, failedAt, excText>>
       \/ /\ \E e \in Exceptions : Except("poll", e)
          /\ UNCHANGED result
    /\ UNCHANGED <<edge_arg, token, work_id, wi>>
    /\ UNCHANGED notMcp

\* line 89
SleepTime == POLL_INTERVAL

Sleep ==
    /\ pc = "sleep"
    /\ elapsed' = elapsed + SleepTime
    /\ pc' = "poll"
    /\ UNCHANGED <<edge_arg, token, work_id, result, ret, raised, failedAt, excText, calls, wi>>
    /\ UNCHANGED notMcp

\* result["reportUrl"] in place of result.get('reportUrl')
ResultMessageSubscript(r) ==
    IF r.status # "success"
       THEN IF r.reportUrl = None
               THEN [raise |-> "KeyError", val |-> <<>>]
               ELSE [raise |-> None, val |-> <<"WorkItem failed: ", r.reportUrl>>]
       ELSE IF r.url = None
               THEN [raise |-> "KeyError", val |-> <<>>]
               ELSE [raise |-> None, val |-> <<"Cube ready: ", r.url>>]

\* lines 104-107: the value generate_cube makes of the final workitem JSON
ResultMessage(r) ==
    IF r.status # "success"
       THEN [raise |-> None, val |-> <<"WorkItem failed: ", PyStr(r.reportUrl)>>]
       ELSE IF r.url = None
               THEN [raise |-> "KeyError", val |-> <<>>]
               ELSE [raise |-> None, val |-> <<"Cube ready: ", r.url>>]

ReadResult ==
    /\ pc = "read"
    /\ LET m == ResultMessage(result) IN
         IF m.raise = None
            THEN /\ ret' = m.val
                 /\ pc' = "done"
                 /\ UNCHANGED <<raised, failedAt, excText>>
            ELSE Except("read", m.raise)
    /\ UNCHANGED <<edge_arg, token, work_id, result, calls, elapsed, wi>>
    /\ UNCHANGED notMcp

\* The vendor's service runs the workitem: pending, in progress, then one of
\* the two terminal states, which it never leaves. A failed workitem has a
\* report; a successful one has an output URL unless the upload is missing
\* from the JSON.
VendorStep ==
    /\ wi.status \in NonTerminal
    /\ \/ /\ wi.status = "pending"
          /\ wi' = [wi EXCEPT !.status = "inprogress"]
       \/ \E rep \in {None, "report"} :
            wi' = [wi EXCEPT !.status = "failed", !.reportUrl = rep]
       \/ \E rep \in {None, "report"}, u \in {None, "stl"} :
            wi' = [wi EXCEPT !.status = "success", !.reportUrl = rep, !.url = u]
    /\ UNCHANGED <<pc, edge_arg, token, work_id, result, ret, raised, failedAt, excText, calls, elapsed>>
    /\ UNCHANGED notMcp

InitMcpVars ==
    /\ pc = "idle"
    /\ edge_arg = 0
    /\ token = None
    /\ work_id = None
    /\ result = NoResult
    /\ ret = <<>>
    /\ raised = None
    /\ failedAt = None
    /\ excText = None
    /\ calls = [token |-> 0, submit |-> 0, poll |-> 0]
    /\ elapsed = 0
    /\ wi = NoWorkitem

(***************************************************************************)
(*                 Text, numbers and JSON as Python makes them             *)
(***************************************************************************)
\* A string is a sequence of one-character strings; a longer token stands
\* for a fixed piece of text.
DigitChars == <<"0", "1", "2", "3", "4", "5", "6", "7", "8", "9">>
IsDigit(ch) == \E i \in 1..10 : DigitChars[i] = ch
DigitVal(ch) == (CHOOSE i \in 1..10 : DigitChars[i] = ch) - 1

RECURSIVE DigitsVal(_)
DigitsVal(s) == IF s = <<>> THEN 0 ELSE DigitsVal(SubSeq(s, 1, Len(s) - 1)) * 10 + DigitVal(s[Len(s)])

RECURSIVE NatStr(_)
NatStr(n) == IF n < 10 THEN <<DigitChars[n + 1]>> ELSE NatStr(n \div 10) \o <<DigitChars[(n % 10) + 1]>>

RECURSIVE LStrip(_)
LStrip(s) == IF s # <<>> /\ s[1] = " " THEN LStrip(Tail(s)) ELSE s
RECURSIVE RStrip(_)
RStrip(s) == IF s # <<>> /\ s[Len(s)] = " " THEN RStrip(SubSeq(s, 1, Len(s) - 1)) ELSE s
RECURSIVE RStripZeros(_)
RStripZeros(s) == IF s # <<>> /\ s[Len(s)] = "0" THEN RStripZeros(SubSeq(s, 1, Len(s) - 1)) ELSE s

\* A float: finite decimal (sign, integer part, fraction digits without
\* trailing zeros), nan or inf. ValueError is float()'s exception.
Fin(neg, int, frac) == [kind |-> "fin", neg |-> neg, int |-> int, frac |-> frac]
NaN == [kind |-> "nan", neg |-> FALSE, int |-> 0, frac |-> <<>>]
Inf(neg) == [kind |-> "inf", neg |-> neg, int |-> 0, frac |-> <<>>]
ValueError == [kind |-> "ValueError", neg |-> FALSE, int |-> 0, frac |-> <<>>]
NoFloat == [kind |-> "none", neg |-> FALSE, int |-> 0, frac |-> <<>>]

DotAt(b) == IF \E i \in 1..Len(b) : b[i] = "." THEN CHOOSE i \in 1..Len(b) : b[i] = "." ELSE 0

\* digits, digits.digits, digits. or .digits
IsDecimal(b) ==
    /\ \A i \in 1..Len(b) : IsDigit(b[i]) \/ b[i] = "."
    /\ Cardinality({i \in 1..Len(b) : b[i] = "."}) <= 1
    /\ \E i \in 1..Len(b) : IsDigit(b[i])

\* float(s) of a str, for the literals written with blanks, a sign, digits,
\* one point, and the words nan and inf (exponents, underscores, upper case
\* and "infinity" are left out: the inputs below do not use them)
PyFloat(s) ==
    LET t == RStrip(LStrip(s))
        signed == t # <<>> /\ t[1] \in {"-", "+"}
        neg == t # <<>> /\ t[1] = "-"
        b == IF signed THEN Tail(t) ELSE t
        d == DotAt(b)
    IN  IF b = <<"n", "a", "n">> THEN NaN
        ELSE IF b = <<"i", "n", "f">> THEN Inf(neg)
        ELSE IF ~IsDecimal(b) THEN ValueError
        ELSE IF d = 0 THEN Fin(neg, DigitsVal(b), <<>>)
        ELSE Fin(neg, DigitsVal(SubSeq(b, 1, d - 1)), RStripZeros(SubSeq(b, d + 1, Len(b))))

\* str(x) / f"{x}" of a float: repr, always with a fraction part
FloatStr(v) ==
    IF v.kind = "nan" THEN <<"n", "a", "n">>
    ELSE IF v.kind = "inf" THEN (IF v.neg THEN <<"-">> ELSE <<>>) \o <<"i", "n", "f">>
    ELSE (IF v.neg THEN <<"-">> ELSE <<>>) \o NatStr(v.int) \o <<".">>
            \o (IF v.frac = <<>> THEN <<"0">> ELSE v.frac)

\* A dict is a sequence of <<key, text>> pairs; json.dumps writes it as
\* {k: text, ...} (the quotation marks are left out)
RECURSIVE JsonMembers(_)
JsonMembers(d) ==
    IF d = <<>> THEN <<>>
    ELSE <<d[1][1], ": ">> \o d[1][2]
            \o (IF Len(d) > 1 THEN <<", ">> ELSE <<>>) \o JsonMembers(Tail(d))
JsonDumps(d) == <<"{">> \o JsonMembers(d) \o <<"}">>

\* urllib.parse.parse_qs(query)[key]: the values given for key, in order,
\* blank ones dropped; <<>> when the key is not in the result
RECURSIVE ParseQs(_, _)
ParseQs(q, key) ==
    IF q = <<>> THEN <<>>
    ELSE (IF q[1][1] = key /\ q[1][2] # <<>> THEN <<q[1][2]>> ELSE <<>>) \o ParseQs(Tail(q), key)

(***************************************************************************)
(*                        LiveCube/LiveCube.py                             *)
(***************************************************************************)
\* run(context) calls counted up to this number
MaxRuns == 2
\* connections that arrive on the port
MaxConns == 2

Conns == 1..MaxConns

Str(text) == <<text>>

\* line 103
DEFAULT_EDGE == Fin(FALSE, 20, <<>>)

\* values of the edge parameter: blank, words, numerals, non-positive
\* numerals, nan
EdgeStrings ==
    { <<>>, <<"a", "b", "c">>, <<"3", "0">>, <<"2", ".", "5", "0">>, <<" ", "7">>,
      <<"-", "5">>, <<"0">>, <<"n", "a", "n">> }

LiveQueries ==
    { <<>> } \cup { << <<"edge", e>> >> : e \in EdgeStrings }
      \cup { << <<"edge", <<"a", "b", "c">> >>, <<"edge", <<"3", "0">> >> >>,
             << <<"size", <<"3", "0">> >> >> }

\* request targets: urlparse raises ValueError on a malformed one ("//[")
LiveRequests ==
    { [malformed |-> FALSE, path |-> "/cmd", query |-> q] : q \in LiveQueries }
      \cup { [malformed |-> FALSE, path |-> p, query |-> << <<"edge", <<"3", "0">> >> >>]
               : p \in {"/", "/create_cube"} }
      \cup { [malformed |-> TRUE, path |-> "", query |-> <<>>] }

NoRequest == [malformed |-> FALSE, path |-> "", query |-> <<>>]

\* exceptions of the host's scripting API inside create_cube
HostErrors == {"RuntimeError: 3 : invalid argument"}
\* exception of a write to a connection the client has left
BrokenPipe == "[Errno 32] Broken pipe"
InvalidUrl == "Invalid IPv6 URL"
\* text of the ValueError of float()
FloatError == "could not convert string to float"

StatusLine(code) ==
    CASE code = 200 -> "HTTP/1.0 200 OK"
      [] code = 404 -> "HTTP/1.0 404 Not Found"
      [] OTHER -> "HTTP/1.0 500 Internal Server Error"
StatusLines == {StatusLine(200), StatusLine(404), StatusLine(500)}

NoHandler ==
    [pc |-> "none", req |-> NoRequest, edge_mm |-> NoFloat, arg |-> NoFloat,
     res |-> <<>>, hbuf |-> <<>>, wire |-> <<>>, exc |-> None, out |-> "none",
     wfail |-> FALSE]

Active(h) == h.pc \notin {"none", "queued", "closed"}
InHandler(h) == Active(h) /\ h.pc # "done"

\* BaseHTTPRequestHandler.send_response + send_header: lines buffered, not
\* written (the Server and Date headers are left out)
SendResponse(h, code, headers) == [h EXCEPT !.hbuf = @ \o <<StatusLine(code)>> \o headers]

\* BaseHTTPRequestHandler.end_headers: the buffer, closed by a blank line, is
\* written in one piece and emptied after the write; when the write raises
\* the buffer keeps its lines
EndHeaders(h, ok) ==
    IF ok THEN [h EXCEPT !.wire = Append(@, h.hbuf \o <<"CRLF">>), !.hbuf = <<>>]
          ELSE [h EXCEPT !.hbuf = @ \o <<"CRLF">>, !.wfail = TRUE]

\* self.wfile.write(data)
WfileWrite(h, data, ok) ==
    IF ok THEN [h EXCEPT !.wire = Append(@, data)] ELSE [h EXCEPT !.wfail = TRUE]

\* an exception raised inside the try of do_GET: control goes to line 124
Raise(h, e) == [h EXCEPT !.pc = "except", !.exc = e]

\* ThreadingHTTPServer: each request is handled on a thread of its own
CanAcceptThreaded == servers > 0

\* HTTPServer handles a request inside serve_forever, on the thread that
\* accepted it: a server takes the next connection when it handles none
CanAccept == Cardinality({c \in Conns : Active(conn[c])}) < servers

\* a server thread can bind DEFAULT_PORT when no server listens on it
PortFree == servers = 0

\* lines 15-32
LiveRun ==
    /\ addin = "stopped"
    /\ runs < MaxRuns
    /\ addin' = "running"
    /\ runs' = runs + 1
    /\ starting' = starting + 1
    /\ UNCHANGED <<servers, bindErrors, nconn, conn>>
    /\ UNCHANGED notLive

\* lines 34-42: the server thread is left running
LiveStop ==
    /\ addin = "running"
    /\ addin' = "stopped"
    /\ UNCHANGED <<runs, starting, servers, bindErrors, nconn, conn>>
    /\ UNCHANGED notLive

\* lines 134-142
StartServer ==
    /\ starting > 0
    /\ starting' = starting - 1
    /\ IF PortFree
          THEN servers' = servers + 1 /\ UNCHANGED bindErrors
          ELSE bindErrors' = bindErrors + 1 /\ UNCHANGED servers
    /\ UNCHANGED <<addin, runs, nconn, conn>>
    /\ UNCHANGED notLive

\* a client connects and sends GET <target>; the connection waits in the
\* listen queue of the port
Arrive ==
    /\ servers > 0
    /\ nconn < MaxConns
    /\ nconn' = nconn + 1
    /\ \E r \in LiveRequests :
         conn' = [conn EXCEPT ![nconn + 1] = [NoHandler EXCEPT !.pc = "queued", !.req = r]]
    /\ UNCHANGED <<addin, runs, starting, servers, bindErrors>>
    /\ UNCHANGED notLive

\* serve_forever accepts the oldest waiting connection and calls do_GET
Accept(c) ==
    /\ conn[c].pc = "queued"
    /\ \A d \in Conns : d < c => conn[d].pc # "queued"
    /\ CanAccept
    /\ conn' = [conn EXCEPT ![c].pc = "parse"]
    /\ UNCHANGED <<addin, runs, starting, servers, bindErrors, nconn>>
    /\ UNCHANGED notLive

\* lines 103-106 without the try of lines 105-108: the ValueError of
\* float() is not caught
EdgeParamUncaught(query) ==
    LET values == ParseQs(query, "edge") IN
    IF values # <<>> /\ values[1] # <<>> THEN PyFloat(values[1]) ELSE DEFAULT_EDGE

\* lines 103-108: the edge the handler passes on
EdgeParam(query) ==
    LET values == ParseQs(query, "edge") IN
    IF values # <<>> /\ values[1] # <<>>
       THEN LET f == PyFloat(values[1]) IN
            IF f = ValueError THEN DEFAULT_EDGE ELSE f
       ELSE DEFAULT_EDGE

\* url.path.startswith("/c") in place of the comparison
IsCmdPrefix(path) == path \in {"/cmd", "/create_cube"}

\* line 98
IsCmd(path) == path = "/cmd"

\* lines 95-108; an exception that leaves the inner try goes to line 124
Route(c) ==
    LET h == conn[c]
        e == EdgeParam(h.req.query) IN
    /\ h.pc = "parse"
    /\ conn' = [conn EXCEPT ![c] =
          IF h.req.malformed THEN Raise(h, InvalidUrl)
          ELSE IF IsCmd(h.req.path)
                  THEN IF e = ValueError THEN Raise(h, FloatError)
                       ELSE [h EXCEPT !.pc = "cube", !.edge_mm = e]
                  ELSE [h EXCEPT !.pc = "send404"]]
    /\ UNCHANGED <<addin, runs, starting, servers, bindErrors, nconn>>
    /\ UNCHANGED notLive

\* line 111 and 44-47: create_cube is entered with edge_mm
CubeBegin(c) ==
    LET h == conn[c] IN
    /\ h.pc = "cube"
    /\ conn' = [conn EXCEPT ![c] = [h EXCEPT !.pc = "incube", !.arg = h.edge_mm]]
    /\ UNCHANGED <<addin, runs, starting, servers, bindErrors, nconn>>
    /\ UNCHANGED notLive

\* lines 86 and 89: what create_cube returns
CreateCubeResult(edge_mm, hostError) ==
    IF hostError = None
       THEN << <<"status", Str("success")>>,
               <<"cube", FloatStr(edge_mm) \o Str("mm edge cube created")>> >>
       ELSE << <<"status", Str("error")>>, <<"message", Str(hostError)>> >>

\* lines 48-89: the host builds the geometry, or one of its calls raises
CubeEnd(c) ==
    LET h == conn[c] IN
    /\ h.pc = "incube"
    /\ \E e \in {None} \cup HostErrors :
         conn' = [conn EXCEPT ![c] = [h EXCEPT !.pc = "send200", !.res = CreateCubeResult(h.arg, e)]]
    /\ UNCHANGED <<addin, runs, starting, servers, bindErrors, nconn>>
    /\ UNCHANGED notLive

\* lines 114-116
Send200(c) ==
    LET h == conn[c] IN
    /\ h.pc = "send200"
    /\ \E ok \in BOOLEAN :
         LET g == EndHeaders(SendResponse(h, 200, <<"Content-type: application/json">>), ok) IN
         conn' = [conn EXCEPT ![c] = IF ok THEN [g EXCEPT !.pc = "body"] ELSE Raise(g, BrokenPipe)]
    /\ UNCHANGED <<addin, runs, starting, servers, bindErrors, nconn>>
    /\ UNCHANGED notLive

\* line 117
WriteBody(c) ==
    LET h == conn[c] IN
    /\ h.pc = "body"
    /\ \E ok \in BOOLEAN :
         LET g == WfileWrite(h, JsonDumps(h.res), ok) IN
         conn' = [conn EXCEPT ![c] =
                    IF ok THEN [g EXCEPT !.pc = "done", !.out = "ok"] ELSE Raise(g, BrokenPipe)]
    /\ UNCHANGED <<addin, runs, starting, servers, bindErrors, nconn>>
    /\ UNCHANGED notLive

\* lines 120-121
Send404(c) ==
    LET h == conn[c] IN
    /\ h.pc = "send404"
    /\ \E ok \in BOOLEAN :
         LET g == EndHeaders(SendResponse(h, 404, <<>>), ok) IN
         conn' = [conn EXCEPT ![c] = IF ok THEN [g EXCEPT !.pc = "body404"] ELSE Raise(g, BrokenPipe)]
    /\ UNCHANGED <<addin, runs, starting, servers, bindErrors, nconn>>
    /\ UNCHANGED notLive

\* line 122
NotFoundBody == JsonDumps(<< <<"status", Str("error")>>, <<"message", Str("Path not found")>> >>)

Write404Body(c) ==
    LET h == conn[c] IN
    /\ h.pc = "body404"
    /\ \E ok \in BOOLEAN :
         LET g == WfileWrite(h, NotFoundBody, ok) IN
         conn' = [conn EXCEPT ![c] =
                    IF ok THEN [g EXCEPT !.pc = "done", !.out = "ok"] ELSE Raise(g, BrokenPipe)]
    /\ UNCHANGED <<addin, runs, starting, servers, bindErrors, nconn>>
    /\ UNCHANGED notLive

\* lines 124-127: a write that raises here raises out of do_GET
Except500(c) ==
    LET h == conn[c] IN
    /\ h.pc = "except"
    /\ \E ok \in BOOLEAN :
         LET g == EndHeaders(SendResponse(h, 500, <<>>), ok) IN
         conn' = [conn EXCEPT ![c] =
                    IF ok THEN [g EXCEPT !.pc = "exceptbody"]
                          ELSE [g EXCEPT !.pc = "done", !.out = "escaped"]]
    /\ UNCHANGED <<addin, runs, starting, servers, bindErrors, nconn>>
    /\ UNCHANGED notLive

\* line 128
ErrorBody(e) == JsonDumps(<< <<"status", Str("error")>>, <<"message", Str(e)>> >>)

ExceptBody(c) ==
    LET h == conn[c] IN
    /\ h.pc = "exceptbody"
    /\ \E ok \in BOOLEAN :
         LET g == WfileWrite(h, ErrorBody(h.exc), ok) IN
         conn' = [conn EXCEPT ![c] =
                    IF ok THEN [g EXCEPT !.pc = "done", !.out = "handled"]
                          ELSE [g EXCEPT !.pc = "done", !.out = "escaped"]]
    /\ UNCHANGED <<addin, runs, starting, servers, bindErrors, nconn>>
    /\ UNCHANGED notLive

\* do_GET has returned or raised: the server closes the connection and goes
\* back to accepting
Close(c) ==
    /\ conn[c].pc = "done"
    /\ conn' = [conn EXCEPT ![c] = [NoHandler EXCEPT !.pc = "closed"]]
    /\ UNCHANGED <<addin, runs, starting, servers, bindErrors, nconn>>
    /\ UNCHANGED notLive

InitLiveVars ==
    /\ addin = "stopped"
    /\ runs = 0
    /\ starting = 0
    /\ servers = 0
    /\ bindErrors = 0
    /\ nconn = 0
    /\ conn = [c \in Conns |-> NoHandler]

NextLive ==
    \/ LiveRun
    \/ LiveStop
    \/ StartServer
    \/ Arrive
    \/ \E c \in Conns : Accept(c)
    \/ \E c \in Conns : Route(c)
    \/ \E c \in Conns : CubeBegin(c)
    \/ \E c \in Conns : CubeEnd(c)
    \/ \E c \in Conns : Send200(c)
    \/ \E c \in Conns : WriteBody(c)
    \/ \E c \in Conns : Send404(c)
    \/ \E c \in Conns : Write404Body(c)
    \/ \E c \in Conns : Except500(c)
    \/ \E c \in Conns : ExceptBody(c)
    \/ \E c \in Conns : Close(c)

(***************************************************************************)
(*                          fusion_server.py                               *)
(***************************************************************************)
\* lines 46-48
DEFAULT_DIM == Fin(FALSE, 50, <<>>)

\* values of width, height and depth: blank, a word, numerals
DimStrings == { <<"a", "b", "c">>, <<"1", "0">>, <<"0">>, <<>> }

\* marks a parameter the query does not name
Absent == <<"<absent>">>

DimQuery(key, v) == IF v = Absent THEN <<>> ELSE << <<key, v>> >>

StubQueries ==
    { DimQuery("width", w) \o DimQuery("height", h) \o DimQuery("depth", d)
        : w, h, d \in {Absent} \cup DimStrings }
      \cup { << <<"width", <<"a", "b", "c">> >>, <<"width", <<"3", "0">> >> >> }

StubRequests ==
    { [malformed |-> FALSE, path |-> "/create_cube", query |-> q] : q \in StubQueries }
      \cup { [malformed |-> FALSE, path |-> "/cmd", query |-> << <<"width", <<"1", "0">> >> >>],
             [malformed |-> TRUE, path |-> "", query |-> <<>>] }

NoStub ==
    [pc |-> "none", req |-> NoRequest, width |-> NoFloat, height |-> NoFloat,
     depth |-> NoFloat, hbuf |-> <<>>, wire |-> <<>>, exc |-> None, out |-> "none",
     wfail |-> FALSE]

\* dict(urllib.parse.parse_qsl(query)).get(key, None): the last value given
\* for key, blank ones dropped
StubGet(query, key) ==
    LET values == ParseQs(query, key) IN
    IF values = <<>> THEN Absent ELSE values[Len(values)]

\* float(params.get(key, 50.0))
StubDim(query, key) ==
    LET v == StubGet(query, key) IN
    IF v = Absent THEN DEFAULT_DIM ELSE PyFloat(v)

\* an exception inside the try of _handle_create_cube: control goes to line 63
RaiseInner(h, e) == [h EXCEPT !.pc = "inner", !.exc = e]
\* an exception inside the try of do_GET: control goes to line 36
RaiseOuter(h, e) == [h EXCEPT !.pc = "outer", !.exc = e]

\* a client sends GET <target>, and do_GET is called
StubArrive ==
    /\ stub.pc = "none"
    /\ \E r \in StubRequests : stub' = [NoStub EXCEPT !.pc = "parse", !.req = r]
    /\ UNCHANGED notStub

\* line 30
IsCreateCube(path) == path = "/create_cube"

\* lines 26-32
StubRoute ==
    /\ stub.pc = "parse"
    /\ stub' = IF stub.req.malformed THEN RaiseOuter(stub, InvalidUrl)
               ELSE IF IsCreateCube(stub.req.path) THEN [stub EXCEPT !.pc = "dims"]
               ELSE [stub EXCEPT !.pc = "send404"]
    /\ UNCHANGED notStub

\* lines 46-50
StubDims ==
    /\ stub.pc = "dims"
    /\ LET w == StubDim(stub.req.query, "width")
           h == StubDim(stub.req.query, "height")
           d == StubDim(stub.req.query, "depth")
       IN stub' = IF ValueError \in {w, h, d}
                     THEN RaiseInner(stub, FloatError)
                     ELSE [stub EXCEPT !.pc = "send200", !.width = w, !.height = h, !.depth = d]
    /\ UNCHANGED notStub

\* lines 55-57
StubSend200 ==
    /\ stub.pc = "send200"
    /\ \E ok \in BOOLEAN :
         LET g == EndHeaders(SendResponse(stub, 200, <<"Content-Type: application/json">>), ok) IN
         stub' = IF ok THEN [g EXCEPT !.pc = "body"] ELSE RaiseInner(g, BrokenPipe)
    /\ UNCHANGED notStub

\* lines 58-61
CreatedBody(w, h, d) ==
    JsonDumps(<< <<"status", Str("success")>>,
                 <<"message", Str("Cube created with dimensions: W:") \o FloatStr(w)
                                \o Str("mm, H:") \o FloatStr(h)
                                \o Str("mm, D:") \o FloatStr(d) \o Str("mm")>> >>)

StubBody ==
    /\ stub.pc = "body"
    /\ \E ok \in BOOLEAN :
         LET g == WfileWrite(stub, CreatedBody(stub.width, stub.height, stub.depth), ok) IN
         stub' = IF ok THEN [g EXCEPT !.pc = "done", !.out = "ok"] ELSE RaiseInner(g, BrokenPipe)
    /\ UNCHANGED notStub

\* lines 63-66
StubInner500 ==
    /\ stub.pc = "inner"
    /\ \E ok \in BOOLEAN :
         LET g == EndHeaders(SendResponse(stub, 500, <<>>), ok) IN
         stub' = IF ok THEN [g EXCEPT !.pc = "innerbody"] ELSE RaiseOuter(g, BrokenPipe)
    /\ UNCHANGED notStub

\* line 67
StubInnerBody ==
    /\ stub.pc = "innerbody"
    /\ \E ok \in BOOLEAN :
         LET g == WfileWrite(stub, <<"Error creating cube: ", stub.exc>>, ok) IN
         stub' = IF ok THEN [g EXCEPT !.pc = "done", !.out = "handled"] ELSE RaiseOuter(g, BrokenPipe)
    /\ UNCHANGED notStub

\* lines 33-34
StubSend404 ==
    /\ stub.pc = "send404"
    /\ \E ok \in BOOLEAN :
         LET g == EndHeaders(SendResponse(stub, 404, <<>>), ok) IN
         stub' = IF ok THEN [g EXCEPT !.pc = "body404"] ELSE RaiseOuter(g, BrokenPipe)
    /\ UNCHANGED notStub

\* line 35
StubBody404 ==
    /\ stub.pc = "body404"
    /\ \E ok \in BOOLEAN :
         LET g == WfileWrite(stub, <<"Not found">>, ok) IN
         stub' = IF ok THEN [g EXCEPT !.pc = "done", !.out = "ok"] ELSE RaiseOuter(g, BrokenPipe)
    /\ UNCHANGED notStub

\* lines 36-39: a write that raises here raises out of do_GET
StubOuter500 ==
    /\ stub.pc = "outer"
    /\ \E ok \in BOOLEAN :
         LET g == EndHeaders(SendResponse(stub, 500, <<>>), ok) IN
         stub' = IF ok THEN [g EXCEPT !.pc = "outerbody"]
                       ELSE [g EXCEPT !.pc = "done", !.out = "escaped"]
    /\ UNCHANGED notStub

\* line 40
StubOuterBody ==
    /\ stub.pc = "outerbody"
    /\ \E ok \in BOOLEAN :
         LET g == WfileWrite(stub, <<"Error: ", stub.exc>>, ok) IN
         stub' = IF ok THEN [g EXCEPT !.pc = "done", !.out = "handled"]
                       ELSE [g EXCEPT !.pc = "done", !.out = "escaped"]
    /\ UNCHANGED notStub

\* do_GET has returned or raised: the connection is closed
StubClose ==
    /\ stub.pc = "done"
    /\ stub' = NoStub
    /\ UNCHANGED notStub

InitStubVars == stub = NoStub

NextStub ==
    \/ StubArrive
    \/ StubRoute
    \/ StubDims
    \/ StubSend200
    \/ StubBody
    \/ StubInner500
    \/ StubInnerBody
    \/ StubSend404
    \/ StubBody404
    \/ StubOuter500
    \/ StubOuterBody
    \/ StubClose

(***************************************************************************)
(*                           Specifications                                *)
(***************************************************************************)
Init == InitMcpVars /\ InitLiveVars /\ InitStubVars

McpStep == Invoke \/ GetToken \/ Submit \/ Poll \/ Sleep \/ ReadResult

NextMcp == Invoke \/ GetToken \/ Submit \/ Poll \/ Sleep \/ ReadResult \/ VendorStep

SpecMcp == Init /\ [][NextMcp]_vars

\* The event loop resumes the coroutine whenever it can run, and every
\* awaited call returns or raises (httpx applies its default timeout); nothing
\* is assumed of the vendor's service.
FairSpecMcp == Init /\ [][NextMcp]_vars /\ WF_vars(McpStep)

SpecLive == Init /\ [][NextLive]_vars

SpecStub == Init /\ [][NextStub]_vars

(***************************************************************************)
(*                     Claims on fusion_mcp.py                             *)
(***************************************************************************)

\* C1: when the polling of generate_cube ends on a workitem whose status is
\* "failed", the call returns, without raising, the text "WorkItem failed: "
\* followed by the workitem's reportUrl (str(None) when the JSON has none),
\* and never a "Cube ready" message.
C1_FailedWorkitemMessage ==
    (pc = "done" /\ result.status = "failed") =>
        /\ raised = None
        /\ failedAt = None
        /\ ret = <<"WorkItem failed: ", PyStr(wi.reportUrl)>>
        /\ ret[1] # "Cube ready: "

C1_Witness ==
    /\ pc = "done"
    /\ result.status = "failed"
    /\ wi.reportUrl = None
    /\ calls.poll >= 2

C2_Safety ==
    \* wait_for_workitem has returned only if the last poll saw a final status,
    \* which is the status the job has
    /\ pc = "read" => /\ result.status \in Terminal
                      /\ wi.status \in Terminal
                      /\ result = wi
                      /\ calls.poll >= 1
    \* the call ends without an exception only on a final status
    /\ (pc = "done" /\ failedAt = None) => (result.status \in Terminal /\ result = wi)
    \* between a poll and the next lies one sleep of POLL_INTERVAL seconds
    /\ pc = "sleep" => (elapsed = 0 /\ calls.poll >= 1)
    /\ (pc = "poll" /\ calls.poll >= 1) => elapsed = POLL_INTERVAL

\* C2: wait_for_workitem polls, POLL_INTERVAL seconds apart, until a poll
\* observes a terminal status; it never returns while the job is not
\* terminal; and once the workitem is terminal generate_cube returns.
C2_PollUntilTerminal ==
    /\ []C2_Safety
    /\ (wi.status \in Terminal) ~> (pc = "done")

C2_Witness ==
    /\ pc = "done"
    /\ failedAt = None
    /\ calls.poll >= 3
    /\ result.status = "success"
    /\ ret = <<"Cube ready: ", "stl">>

C3_State ==
    \* no exception leaves generate_cube
    /\ raised = None
    \* one chain: a token before the submission, the submission before a poll
    /\ calls.token <= 1 /\ calls.submit <= 1
    /\ calls.submit = 1 => (calls.token = 1 /\ token # None)
    /\ calls.poll >= 1 => (calls.submit = 1 /\ work_id # None)
    \* a step that raised ends the call with the error string
    /\ failedAt # None =>
          /\ pc = "done"
          /\ ret = <<"Error creating cube: ", excText>>
          /\ excText \in Exceptions
    /\ (pc = "done" /\ failedAt = None) => ret[1] \in {"WorkItem failed: ", "Cube ready: "}

C3_Step ==
    \* after a step has raised, no network call is made and nothing changes
    failedAt # None => (calls' = calls /\ ret' = ret /\ pc' = "done")

\* C3: generate_cube performs token request, submission and polls as one
\* sequential chain and never raises: when a step raises, no later step is
\* performed and the call returns the error string with the exception text.
C3_ChainNeverRaises == []C3_State /\ [][C3_Step]_vars

C3_Witness ==
    /\ pc = "done"
    /\ failedAt = "poll"
    /\ excText = "KeyError"
    /\ calls.poll >= 2
    /\ ret = <<"Error creating cube: ", "KeyError">>

(***************************************************************************)
(*            Claims on LiveCube/LiveCube.py and fusion_server.py          *)
(***************************************************************************)
RECURSIVE Flatten(_)
Flatten(w) == IF w = <<>> THEN <<>> ELSE w[1] \o Flatten(Tail(w))

\* status lines written to the connection
StatusCount(w) == LET f == Flatten(w) IN Cardinality({i \in 1..Len(f) : f[i] \in StatusLines})

EdgeValues(q) == SelectSeq(q, LAMBDA kv : kv[1] = "edge")

\* the query names no edge, or only blank ones and ones float() rejects
NoNumericEdge(q) ==
    \A i \in 1..Len(EdgeValues(q)) :
        LET v == EdgeValues(q)[i][2] IN v = <<>> \/ PyFloat(v) = ValueError

IsCmdRequest(h) == h.pc \notin {"none", "closed"} /\ ~h.req.malformed /\ h.req.path = "/cmd"
IsOtherRequest(h) == h.pc \notin {"none", "closed"} /\ ~h.req.malformed /\ h.req.path # "/cmd"

\* a length one can build a cube with: a finite number above zero
IsPositive(v) == v.kind = "fin" /\ ~v.neg /\ (v.int > 0 \/ v.frac # <<>>)

Twenty == Fin(FALSE, 20, <<>>)
Fifty == Fin(FALSE, 50, <<>>)

C4_Response(hostError) ==
    << <<"HTTP/1.0 200 OK", "Content-type: application/json", "CRLF">>,
       IF hostError = None
          THEN <<"{", "status", ": ", "success", ", ", "cube", ": ",
                 "2", "0", ".", "0", "mm edge cube created", "}">>
          ELSE <<"{", "status", ": ", "error", ", ", "message", ": ", hostError, "}">> >>

\* C4: for a GET /cmd whose edge parameter is missing, blank or not a number
\* for float(), create_cube is called with 20.0 and nothing in the answer is
\* an error of the parameter: no ValueError reaches the handler's except, a
\* 500 is sent only after a write to the connection failed, and the answer
\* written is the 200 with what create_cube(20.0) returned.
C4_DefaultEdge ==
    \A c \in Conns :
        LET h == conn[c] IN
        (IsCmdRequest(h) /\ NoNumericEdge(h.req.query)) =>
            /\ h.pc \notin {"queued", "parse"} => h.pc # "send404"
            /\ h.pc \notin {"queued", "parse"} => h.edge_mm = Twenty
            /\ h.pc \notin {"queued", "parse", "cube"} => h.arg = Twenty
            /\ h.exc \in {None, BrokenPipe}
            /\ h.exc # None => h.wfail
            /\ StatusLine(500) \in {Flatten(h.wire)[i] : i \in 1..Len(Flatten(h.wire))} => h.wfail
            /\ (h.pc = "done" /\ ~h.wfail) =>
                  /\ h.out = "ok"
                  /\ \E e \in {None} \cup HostErrors : h.wire = C4_Response(e)

C4_Witness ==
    \E c \in Conns :
        /\ conn[c].pc = "done"
        /\ conn[c].req.path = "/cmd"
        /\ conn[c].req.query = << <<"edge", <<"a", "b", "c">> >> >>
        /\ conn[c].wire = C4_Response(None)

\* a failure while the request is handled: a host call raised inside
\* create_cube, or an exception was raised in the try of do_GET
C5_Failed(h) == h.exc # None \/ (h.res # <<>> /\ h.res[1][2] = <<"error">>)

C5_ExceptionText(h) == IF h.exc # None THEN h.exc ELSE h.res[2][2][1]

\* C5: on any failure while GET /cmd is handled, the client receives the
\* error payload {status: error, message: <exception text>}; a failure never
\* produces a success payload and never leaves the handler.
C5_ErrorPayloadOnAnyFailure ==
    \A c \in Conns :
        LET h == conn[c] IN
        (IsCmdRequest(h) /\ h.pc = "done" /\ C5_Failed(h)) =>
            /\ h.out # "escaped"
            /\ h.wire # <<>>
            /\ h.wire[Len(h.wire)] =
                 <<"{", "status", ": ", "error", ", ", "message", ": ", C5_ExceptionText(h), "}">>
            /\ \A i \in 1..Len(h.wire) : "success" \notin {h.wire[i][j] : j \in 1..Len(h.wire[i])}

C6_Response ==
    << <<"HTTP/1.0 404 Not Found", "CRLF">>,
       <<"{", "status", ": ", "error", ", ", "message", ": ", "Path not found", "}">> >>

\* C6: a GET whose path is not /cmd is answered with HTTP 404 and the error
\* JSON body, and create_cube is not called for it: the handler never enters
\* the /cmd branch, the first status line it writes is the 404, and when no
\* write to the connection failed the answer is exactly the 404 response.
C6_NotFound ==
    \A c \in Conns :
        LET h == conn[c] IN
        IsOtherRequest(h) =>
            /\ h.arg = NoFloat /\ h.edge_mm = NoFloat /\ h.res = <<>>
            /\ h.pc \notin {"cube", "incube", "send200", "body"}
            /\ h.wire # <<>> => h.wire[1][1] = "HTTP/1.0 404 Not Found"
            /\ h.exc # None => h.wfail
            /\ (h.pc = "done" /\ ~h.wfail) => (h.out = "ok" /\ h.wire = C6_Response)

C6_Witness ==
    \E c \in Conns :
        /\ conn[c].pc = "done"
        /\ conn[c].req.path = "/create_cube"
        /\ conn[c].wire = C6_Response

C7_Expected(q, key) ==
    LET v == StubGet(q, key) IN
    IF v = Absent \/ PyFloat(v) = ValueError THEN Fifty ELSE PyFloat(v)

\* C7: in the stub server, for every GET /create_cube, each of width, height
\* and depth that is absent or unparsable defaults to a fixed value, and the
\* response is the 200 success JSON with the three values in the message.
C7_StubDefaultsAndSucceeds ==
    (stub.pc = "done" /\ ~stub.req.malformed /\ stub.req.path = "/create_cube" /\ ~stub.wfail) =>
        stub.wire =
            << <<"HTTP/1.0 200 OK", "Content-Type: application/json", "CRLF">>,
               <<"{", "status", ": ", "success", ", ", "message", ": ",
                 "Cube created with dimensions: W:">>
                 \o FloatStr(C7_Expected(stub.req.query, "width")) \o <<"mm, H:">>
                 \o FloatStr(C7_Expected(stub.req.query, "height")) \o <<"mm, D:">>
                 \o FloatStr(C7_Expected(stub.req.query, "depth")) \o <<"mm", "}">> >>

\* C8: every cube request acted upon carries positive lengths: create_cube
\* is never called with an edge that is not positive, and the stub never
\* reports a cube with a width, height or depth that is not positive.
C8_PositiveMeasurements ==
    /\ \A c \in Conns : conn[c].arg # NoFloat => IsPositive(conn[c].arg)
    /\ stub.pc \in {"send200", "body", "done"} /\ stub.width # NoFloat =>
          (IsPositive(stub.width) /\ IsPositive(stub.height) /\ IsPositive(stub.depth))

\* C9: the embedded server handles requests on one listener thread, one after
\* the other: one server listens, at most one do_GET and so at most one
\* create_cube is in progress, and when the handling of a request starts the
\* handlers of the requests that arrived before it have ended.
C9_OneRequestAtATime ==
    /\ servers <= 1
    /\ Cardinality({c \in Conns : conn[c].pc = "incube"}) <= 1
    /\ Cardinality({c \in Conns : InHandler(conn[c])}) <= 1
    /\ \A c, d \in Conns :
         (c < d /\ Active(conn[d])) => conn[c].pc \in {"done", "closed"}

C9_Witness ==
    /\ conn[1].pc = "closed"
    /\ conn[2].pc = "incube"
    /\ runs = 2
    /\ bindErrors = 1

\* C10: for every GET handled by either server exactly one status line is
\* sent on the connection: no exception path sends a second one after a 200
\* or 404 was started.
C10_OneStatusLine ==
    /\ \A c \in Conns :
         /\ StatusCount(conn[c].wire) <= 1
         /\ (conn[c].pc = "done" /\ conn[c].out # "escaped") => StatusCount(conn[c].wire) = 1
    /\ StatusCount(stub.wire) <= 1
    /\ (stub.pc = "done" /\ stub.out # "escaped") => StatusCount(stub.wire) = 1

====
